---- MODULE Spec2Model ----
(***************************************************************************)
(* Alert Configuration Generator (src/main.py).                            *)
(*                                                                         *)
(* One browser session of the Streamlit script: every user interaction     *)
(* re-runs main() from the top with the widgets' current values; only      *)
(* st.session_state survives from one run to the next.  The network and    *)
(* the remote service are the environment: each request draws one outcome  *)
(* from a finite set of outcomes.                                          *)
(***************************************************************************)
EXTENDS Integers, Sequences, FiniteSets, TLC

\* ------------------------------------------------------------------ bounds
MaxMsgLen == 2
MaxSubmits == 2

\* --------------------------------------------------------- program constants
DEFAULT_API_HOST == "http://34.67.4.17:8080"
DEFAULT_API_PATH == "/api/v1/chat"

\* ------------------------------------------------------------ Python values
\* A parsed JSON document (what response.json() returns).  Python's None is
\* the parse of JSON null, so the dispatcher's "no configuration" is JNull.
JNull == [t |-> "null"]
JStr(s) == [t |-> "str", v |-> s]
JNum(n) == [t |-> "num", v |-> n]
JBool(b) == [t |-> "bool", v |-> b]
JList(items) == [t |-> "list", v |-> items]
\* a dict keeps its insertion order: a sequence of <<key, value>> pairs
JObj(pairs) == [t |-> "obj", v |-> pairs]

PyNone == JNull

\* bool(x) of a parsed JSON value
Truthy(j) ==
    CASE j.t = "null" -> FALSE
      [] j.t = "str"  -> j.v # ""
      [] j.t = "num"  -> j.v # 0
      [] j.t = "bool" -> j.v
      [] j.t = "list" -> Len(j.v) > 0
      [] j.t = "obj"  -> Len(j.v) > 0

HasKey(d, k) == \E i \in 1..Len(d.v) : d.v[i][1] = k

GetKey(d, k) == d.v[CHOOSE i \in 1..Len(d.v) : d.v[i][1] = k][2]

\* x[k] for a string key k: the value, or the exception Python raises
Subscript(x, k) ==
    CASE x.t = "obj" /\ HasKey(x, k)  -> [exc |-> "none", val |-> GetKey(x, k)]
      [] x.t = "obj" /\ ~HasKey(x, k) -> [exc |-> "KeyError", val |-> PyNone]
      [] OTHER                        -> [exc |-> "TypeError", val |-> PyNone]

\* x == "literal" for a parsed JSON value x
EqStr(x, s) == x.t = "str" /\ x.v = s

RECURSIVE JoinWith(_, _)
JoinWith(parts, sep) ==
    IF Len(parts) = 0 THEN ""
    ELSE IF Len(parts) = 1 THEN parts[1]
    ELSE parts[1] \o sep \o JoinWith(Tail(parts), sep)

\* repr(x), used by str() of containers
RECURSIVE PyRepr(_)
PyRepr(x) ==
    CASE x.t = "null" -> "None"
      [] x.t = "str"  -> "'" \o x.v \o "'"
      [] x.t = "num"  -> ToString(x.v)
      [] x.t = "bool" -> IF x.v THEN "True" ELSE "False"
      [] x.t = "list" ->
            "[" \o JoinWith([i \in 1..Len(x.v) |-> PyRepr(x.v[i])], ", ") \o "]"
      [] x.t = "obj"  ->
            "{" \o JoinWith([i \in 1..Len(x.v) |->
                     "'" \o x.v[i][1] \o "': " \o PyRepr(x.v[i][2])], ", ") \o "}"

\* str(x): what an f-string substitutes for {x}
PyStr(x) == IF x.t = "str" THEN x.v ELSE PyRepr(x)

RECURSIVE Spaces(_)
Spaces(n) == IF n = 0 THEN "" ELSE " " \o Spaces(n - 1)

\* json.dumps(x, indent=2) at nesting depth lvl
RECURSIVE Dumps(_, _)
Dumps(x, lvl) ==
    CASE x.t = "null" -> "null"
      [] x.t = "str"  -> "\"" \o x.v \o "\""
      [] x.t = "num"  -> ToString(x.v)
      [] x.t = "bool" -> IF x.v THEN "true" ELSE "false"
      [] x.t = "list" ->
            IF Len(x.v) = 0 THEN "[]"
            ELSE "[\n"
                 \o JoinWith([i \in 1..Len(x.v) |->
                        Spaces(2 * (lvl + 1)) \o Dumps(x.v[i], lvl + 1)], ",\n")
                 \o "\n" \o Spaces(2 * lvl) \o "]"
      [] x.t = "obj"  ->
            IF Len(x.v) = 0 THEN "{}"
            ELSE "{\n"
                 \o JoinWith([i \in 1..Len(x.v) |->
                        Spaces(2 * (lvl + 1)) \o "\"" \o x.v[i][1] \o "\": "
                        \o Dumps(x.v[i][2], lvl + 1)], ",\n")
                 \o "\n" \o Spaces(2 * lvl) \o "}"

format_json(json_data) == Dumps(json_data, 0)

\* ------------------------------------------------------------------ strings
\* The message is a sequence of characters, so that str.strip() is computed.
IsSpace(c) == c \in {" ", "\t", "\n", "\r"}

RECURSIVE LStrip(_)
LStrip(s) == IF Len(s) > 0 /\ IsSpace(Head(s)) THEN LStrip(Tail(s)) ELSE s

RECURSIVE RStrip(_)
RStrip(s) ==
    IF Len(s) > 0 /\ IsSpace(s[Len(s)]) THEN RStrip(SubSeq(s, 1, Len(s) - 1)) ELSE s

Strip(s) == RStrip(LStrip(s))

\* ------------------------------------------------------- endpoint resolver
\* os.environ is a function from variable names to strings;
\* st.session_state is a function from keys to values.
EnvHas(environ, name) == name \in DOMAIN environ

\* get_api_url(): the URL returned, the session state it leaves, and whether
\* the default-initialisation branch (line 48) was taken.
get_api_url_session_first(environ, ss) ==
    IF "api_url" \in DOMAIN ss
    THEN [url |-> ss["api_url"], ss |-> ss, defaulted |-> FALSE]
    ELSE IF EnvHas(environ, "ALERT_API_URL") /\ environ["ALERT_API_URL"] # ""
    THEN [url |-> environ["ALERT_API_URL"], ss |-> ss, defaulted |-> FALSE]
    ELSE [url |-> DEFAULT_API_HOST \o DEFAULT_API_PATH,
          ss |-> ("api_url" :> (DEFAULT_API_HOST \o DEFAULT_API_PATH)) @@ ss,
          defaulted |-> TRUE]

get_api_url(environ, ss) ==
    IF EnvHas(environ, "ALERT_API_URL") /\ environ["ALERT_API_URL"] # ""
    THEN [url |-> environ["ALERT_API_URL"], ss |-> ss, defaulted |-> FALSE]
    ELSE IF "api_url" \notin DOMAIN ss
         THEN [url |-> DEFAULT_API_HOST \o DEFAULT_API_PATH,
               ss |-> ("api_url" :> (DEFAULT_API_HOST \o DEFAULT_API_PATH)) @@ ss,
               defaulted |-> TRUE]
         ELSE [url |-> ss["api_url"], ss |-> ss, defaulted |-> FALSE]

\* ----------------------------------------------------- request dispatcher
\* Exceptions of the requests library that derive from
\* requests.exceptions.RequestException.  response.json() raises
\* requests.exceptions.JSONDecodeError (a RequestException) from requests 2.27
\* on, and json.JSONDecodeError (a ValueError) before: the installed version
\* is not fixed by the repository, so both are possible.
RequestExceptionClasses ==
    {"ConnectionError", "ConnectTimeout", "MissingSchema", "HTTPError",
     "requests.JSONDecodeError"}

IsRequestException_http_only(cls) == cls = "HTTPError"

IsRequestException(cls) == cls \in RequestExceptionClasses

\* Response.raise_for_status(): HTTPError for 4xx and 5xx
RaisesForStatus(status) == 400 <= status /\ status < 600

\* The optional api_url parameter of send_alert_request
NoUrlArg == [given |-> FALSE, v |-> ""]

RequestPayload(message) ==
    [user_id |-> "streamlit_user", message |-> message, camera_id |-> PyNone]

TryBlock_no_raise_for_status(net) ==
    IF net.post_exc # "none" THEN [exc |-> net.post_exc, msg |-> net.msg]
    ELSE IF ~net.parses THEN [exc |-> net.json_exc, msg |-> net.msg]
    ELSE [exc |-> "none", msg |-> ""]

\* The exception, if any, that the body of the try block raises for the
\* outcome net of the exchange, with str(e).
TryBlock(net) ==
    IF net.post_exc # "none" THEN [exc |-> net.post_exc, msg |-> net.msg]
    ELSE IF RaisesForStatus(net.status) THEN [exc |-> "HTTPError", msg |-> net.msg]
    ELSE IF ~net.parses THEN [exc |-> net.json_exc, msg |-> net.msg]
    ELSE [exc |-> "none", msg |-> ""]

send_alert_request_retry(message, api_url, environ, ss, net) ==
    LET r   == IF api_url.given /\ api_url.v # ""
               THEN [url |-> api_url.v, ss |-> ss, defaulted |-> FALSE]
               ELSE get_api_url(environ, ss)
        t   == TryBlock(net)
        req == [url |-> r.url, json |-> RequestPayload(message)]
    IN  IF t.exc = "none"
        THEN [ret |-> net.json, errors |-> <<>>, posts |-> <<req>>,
              caught |-> "none", ss |-> r.ss, defaulted |-> r.defaulted]
        ELSE IF IsRequestException(t.exc)
        THEN [ret |-> PyNone,
              errors |-> <<"Error communicating with API: " \o t.msg>>,
              posts |-> <<req, req>>,
              caught |-> t.exc, ss |-> r.ss, defaulted |-> r.defaulted]
        ELSE [ret |-> PyNone,
              errors |-> <<"Unexpected error: " \o t.msg>>,
              posts |-> <<req>>,
              caught |-> t.exc, ss |-> r.ss, defaulted |-> r.defaulted]

\* send_alert_request(message, api_url): what it returns, the st.error
\* messages it shows, the requests.post calls it makes.
send_alert_request(message, api_url, environ, ss, net) ==
    LET r   == IF api_url.given /\ api_url.v # ""
               THEN [url |-> api_url.v, ss |-> ss, defaulted |-> FALSE]
               ELSE get_api_url(environ, ss)
        t   == TryBlock(net)
        req == [url |-> r.url, json |-> RequestPayload(message)]
    IN  IF t.exc = "none"
        THEN [ret |-> net.json, errors |-> <<>>, posts |-> <<req>>,
              caught |-> "none", ss |-> r.ss, defaulted |-> r.defaulted]
        ELSE IF IsRequestException(t.exc)
        THEN [ret |-> PyNone,
              errors |-> <<"Error communicating with API: " \o t.msg>>,
              posts |-> <<req>>,
              caught |-> t.exc, ss |-> r.ss, defaulted |-> r.defaulted]
        ELSE [ret |-> PyNone,
              errors |-> <<"Unexpected error: " \o t.msg>>,
              posts |-> <<req>>,
              caught |-> t.exc, ss |-> r.ss, defaulted |-> r.defaulted]

\* ------------------------------------------------------ response presenter
NoRender ==
    [successes |-> <<>>, subheaders |-> <<>>, codes |-> <<>>, writes |-> <<>>,
     uncaught |-> "none"]

ExplainObjectCount_swapped(params) ==
    LET a == Subscript(params, "class_name")
        b == Subscript(params, "comparison")
        c == Subscript(params, "count_value")
    IN  IF a.exc # "none" THEN [exc |-> a.exc, line |-> ""]
        ELSE IF b.exc # "none" THEN [exc |-> b.exc, line |-> ""]
        ELSE IF c.exc # "none" THEN [exc |-> c.exc, line |-> ""]
        ELSE [exc |-> "none",
              line |-> "This alert will trigger when the count of '"
                       \o PyStr(a.val) \o "' is " \o PyStr(c.val) \o " "
                       \o PyStr(b.val)]

\* The f-string of each branch: the line written, or the exception raised by
\* the first params[...] that fails.
ExplainObjectCount(params) ==
    LET a == Subscript(params, "class_name")
        b == Subscript(params, "comparison")
        c == Subscript(params, "count_value")
    IN  IF a.exc # "none" THEN [exc |-> a.exc, line |-> ""]
        ELSE IF b.exc # "none" THEN [exc |-> b.exc, line |-> ""]
        ELSE IF c.exc # "none" THEN [exc |-> c.exc, line |-> ""]
        ELSE [exc |-> "none",
              line |-> "This alert will trigger when the count of '"
                       \o PyStr(a.val) \o "' is " \o PyStr(b.val) \o " "
                       \o PyStr(c.val)]

ExplainTimer(params) ==
    LET a == Subscript(params, "duration")
    IN  IF a.exc # "none" THEN [exc |-> a.exc, line |-> ""]
        ELSE [exc |-> "none",
              line |-> "This alert will trigger after " \o PyStr(a.val)
                       \o " seconds"]

ExplainZone(params) ==
    LET a == Subscript(params, "target_object")
    IN  IF a.exc # "none" THEN [exc |-> a.exc, line |-> ""]
        ELSE [exc |-> "none",
              line |-> "This alert will trigger when a " \o PyStr(a.val)
                       \o " is detected in the specified zone"]

\* Lines 157-175: the switch on alert_config.type
Explain(alert_type, params) ==
    IF EqStr(alert_type, "ObjectCountAlert") THEN ExplainObjectCount(params)
    ELSE IF EqStr(alert_type, "TimerAlert") THEN ExplainTimer(params)
    ELSE IF EqStr(alert_type, "ZoneAlert") THEN ExplainZone(params)
    ELSE [exc |-> "none", line |-> ""]

KnownType(alert_type) ==
    \/ EqStr(alert_type, "ObjectCountAlert")
    \/ EqStr(alert_type, "TimerAlert")
    \/ EqStr(alert_type, "ZoneAlert")

StatusIsSuccess_present_only(result) == HasKey(result, "status")

\* result.get("status") == "success"
StatusIsSuccess(result) ==
    HasKey(result, "status") /\ EqStr(GetKey(result, "status"), "success")

\* Lines 147-175: what main renders for the value send_alert_request
\* returned, and the exception that escapes main, if any.
Present(result) ==
    IF ~Truthy(result) THEN NoRender
    ELSE IF result.t # "obj" THEN [NoRender EXCEPT !.uncaught = "AttributeError"]
    ELSE IF ~StatusIsSuccess(result) THEN NoRender
    ELSE
      LET s1 == [NoRender EXCEPT
                   !.successes = <<"Alert configuration generated successfully!">>,
                   !.subheaders = <<"Generated Alert Configuration:">>]
          ac == Subscript(result, "alert_config")
      IN  IF ac.exc # "none" THEN [s1 EXCEPT !.uncaught = ac.exc]
          ELSE
            LET s2 == [s1 EXCEPT
                         !.codes = <<format_json(ac.val)>>,
                         !.subheaders = Append(@, "Alert Explanation:")]
                ty == Subscript(ac.val, "type")
                pa == Subscript(ac.val, "params")
            IN  IF ty.exc # "none" THEN [s2 EXCEPT !.uncaught = ty.exc]
                ELSE IF pa.exc # "none" THEN [s2 EXCEPT !.uncaught = pa.exc]
                ELSE
                  LET e == Explain(ty.val, pa.val)
                  IN  IF e.exc # "none" THEN [s2 EXCEPT !.uncaught = e.exc]
                      ELSE IF KnownType(ty.val)
                           THEN [s2 EXCEPT !.writes = <<e.line>>]
                           ELSE s2

\* ------------------------------------------------------------------ inputs
\* Values the user can type into the two sidebar fields
Hosts == {DEFAULT_API_HOST, ""}
Paths == {DEFAULT_API_PATH, "/v2/chat"}

\* The process environment: ALERT_API_URL unset, empty, or set
NoEnv == [k \in {} |-> ""]
Environs ==
    {NoEnv, [ALERT_API_URL |-> ""], [ALERT_API_URL |-> "http://override.example/chat"]}

\* Text-area contents: every string of at most MaxMsgLen characters
Chars == {" ", "a"}
Messages == UNION {[1..n -> Chars] : n \in 0..MaxMsgLen}

\* requests refuses a URL without a scheme before any I/O (MissingSchema)
HasScheme(url) == url \notin {"" \o p : p \in Paths}

\* params objects of a response
ParamsValues ==
    { JNull,
      JObj(<<>>),
      JObj(<< <<"class_name", JStr("person")>>, <<"comparison", JStr(">")>>,
              <<"count_value", JNum(10)>> >>),
      JObj(<< <<"count_value", JNum(0)>>, <<"comparison", JStr("==")>>,
              <<"class_name", JStr("car")>>, <<"zone", JStr("A")>> >>),
      JObj(<< <<"class_name", JStr("person")>>, <<"comparison", JStr(">")>> >>),
      JObj(<< <<"duration", JNum(300)>> >>),
      JObj(<< <<"duration", JNull>>, <<"unit", JStr("s")>> >>),
      JObj(<< <<"target_object", JStr("person")>>,
              <<"zone", JList(<<JNum(1), JNum(2)>>)>> >>),
      JObj(<< <<"target_object", JList(<<JStr("cat"), JStr("dog")>>)>> >>) }

TypeValues ==
    { JStr("ObjectCountAlert"), JStr("TimerAlert"), JStr("ZoneAlert"),
      JStr("SpeedAlert"), JNull }

\* alert_config values of a response
AlertConfigs ==
    { JNull, JStr("none"), JList(<<JStr("type")>>), JObj(<<>>) }
    \cup { JObj(<< <<"type", ty>> >>) : ty \in {JStr("TimerAlert"), JStr("SpeedAlert")} }
    \cup { JObj(<< <<"params", JObj(<< <<"duration", JNum(300)>> >>)>> >>) }
    \cup { JObj(<< <<"type", ty>>, <<"params", pa>> >>) :
              ty \in TypeValues, pa \in ParamsValues }

\* Bodies that parse as JSON
Bodies ==
    { JNull, JNum(0), JNum(5), JStr("success"), JList(<<JStr("success")>>),
      JObj(<<>>) }
    \cup { JObj(<< <<"status", st>> >>) :
              st \in {JStr("success"), JStr("error"), JNull} }
    \cup { JObj(<< <<"detail", JStr("rate limited")>> >>) }
    \cup { JObj(<< <<"alert_config", ac>> >>) :
              ac \in {JObj(<< <<"type", JStr("TimerAlert")>>,
                              <<"params", JObj(<< <<"duration", JNum(300)>> >>)>> >>)} }
    \cup { JObj(<< <<"status", JStr("error")>>, <<"alert_config", ac>> >>) :
              ac \in {JNull,
                      JObj(<< <<"type", JStr("TimerAlert")>>,
                              <<"params", JObj(<< <<"duration", JNum(300)>> >>)>> >>)} }
    \cup { JObj(<< <<"status", JStr("success")>>, <<"alert_config", ac>> >>) :
              ac \in AlertConfigs }

NetBase ==
    [post_exc |-> "none", status |-> 200, parses |-> TRUE, json |-> PyNone,
     json_exc |-> "none", msg |-> ""]

\* Outcomes of requests.post(url, json=payload) and of reading the response
PostOutcomes(url) ==
    IF ~HasScheme(url)
    THEN { [NetBase EXCEPT !.post_exc = "MissingSchema", !.parses = FALSE,
                           !.msg = "Invalid URL: No scheme supplied"] }
    ELSE { [NetBase EXCEPT !.post_exc = "ConnectionError", !.parses = FALSE,
                           !.msg = m] :
              m \in {"Connection refused", "Name or service not known"} }
         \cup { [NetBase EXCEPT !.post_exc = "ConnectTimeout", !.parses = FALSE,
                                !.msg = "Connection timed out"] }
         \cup { [NetBase EXCEPT !.status = c,
                                !.json = JObj(<< <<"status", JStr("success")>> >>),
                                !.msg = ToString(c) \o " Error for url: " \o url] :
                   c \in {404, 500} }
         \cup { [NetBase EXCEPT !.status = 200, !.parses = FALSE, !.json_exc = e,
                                !.msg = "Expecting value: line 1 column 1 (char 0)"] :
                   e \in {"requests.JSONDecodeError", "json.JSONDecodeError"} }
         \cup { [NetBase EXCEPT !.status = c, !.json = b] :
                   c \in {200}, b \in Bodies }

\* Outcomes of requests.get(api_host) in the connection test
GetOutcomes(host) ==
    IF ~HasScheme(host)
    THEN { [exc |-> "MissingSchema", status |-> 0] }
    ELSE { [exc |-> "ConnectionError", status |-> 0] }
         \cup { [exc |-> "none", status |-> c] : c \in {200, 404} }

NoGet == [exc |-> "none", status |-> 0]

\* ------------------------------------------------------------------- state
VARIABLES
    environ,        \* os.environ of the process
    api_host,       \* sidebar field "API Host"
    api_path,       \* sidebar field "API Path"
    message,        \* the text area
    session_state,  \* st.session_state
    page,           \* what the last run of main() rendered and did
    started,        \* the script has run at least once in this session
    nSubmits,       \* submissions of a non-blank message so far
    nPosts          \* requests.post calls so far

vars ==
    <<environ, api_host, api_path, message, session_state, page, started,
      nSubmits, nPosts>>

BlankPage ==
    [button |-> "none", warnings |-> <<>>, errors |-> <<>>, successes |-> <<>>,
     subheaders |-> <<>>, codes |-> <<>>, writes |-> <<>>, posts |-> <<>>,
     gets |-> <<>>, called |-> FALSE, ret |-> PyNone, caught |-> "none",
     uncaught |-> "none", defaulted |-> FALSE, net |-> NetBase, ss |-> NoEnv]

SidebarStore_if_absent(ss, host, path) ==
    IF "api_url" \in DOMAIN ss THEN ss ELSE ("api_url" :> (host \o path)) @@ ss

\* Line 110: the sidebar stores host + path on every run
SidebarStore(ss, host, path) == ("api_url" :> (host \o path)) @@ ss

\* Lines 114-122: the connection test
TestConnection(host, getnet) ==
    IF getnet.exc # "none"
    THEN [successes |-> <<>>, errors |-> <<"Could not connect to API server">>]
    ELSE IF getnet.status < 400
    THEN [successes |-> <<"Successfully connected to API server!">>, errors |-> <<>>]
    ELSE [successes |-> <<>>,
          errors |-> <<"Failed to connect: " \o ToString(getnet.status)>>]

IsBlank_no_strip(msg) == msg = <<>>

\* Line 141: not message.strip()
IsBlank(msg) == Strip(msg) = <<>>

\* One run of main() with the button that was pressed (if any): the page it
\* renders, with the session state it leaves in field ss.
main(button, host, path, msg, env, ss, net, getnet) ==
    LET ss1  == SidebarStore(ss, host, path)
        base == [BlankPage EXCEPT !.button = button, !.ss = ss1]
    IN  IF button = "test"
        THEN LET t == TestConnection(host, getnet)
             IN  [base EXCEPT !.gets = <<host>>, !.successes = t.successes,
                              !.errors = t.errors]
        ELSE IF button = "generate"
        THEN IF IsBlank(msg)
             THEN [base EXCEPT !.warnings = <<"Please enter a message">>]
             ELSE LET r == send_alert_request(msg, NoUrlArg, env, ss1, net)
                      p == Present(r.ret)
                  IN  [base EXCEPT !.called = TRUE, !.net = net,
                                   !.ret = r.ret, !.caught = r.caught,
                                   !.errors = r.errors, !.posts = r.posts,
                                   !.defaulted = r.defaulted, !.ss = r.ss,
                                   !.successes = p.successes,
                                   !.subheaders = p.subheaders,
                                   !.codes = p.codes, !.writes = p.writes,
                                   !.uncaught = p.uncaught]
        ELSE base

\* The URL a request of this run goes to
ResolvedUrl(env, host, path) == get_api_url(env, SidebarStore(NoEnv, host, path)).url

Init ==
    /\ environ \in Environs
    /\ api_host = DEFAULT_API_HOST
    /\ api_path = DEFAULT_API_PATH
    /\ message = <<>>
    /\ session_state = NoEnv
    /\ page = BlankPage
    /\ started = FALSE
    /\ nSubmits = 0
    /\ nPosts = 0

\* A run of the script that leaves the widgets as they are
Rerun(button, host, path, msg, net, getnet) ==
    LET pg == main(button, host, path, msg, environ, session_state, net, getnet)
    IN  /\ page' = pg
        /\ session_state' = pg.ss
        /\ api_host' = host
        /\ api_path' = path
        /\ message' = msg
        /\ started' = TRUE
        /\ nPosts' = nPosts + Len(pg.posts)
        /\ nSubmits' = IF button = "generate" /\ ~IsBlank(msg)
                       THEN nSubmits + 1 ELSE nSubmits
        /\ UNCHANGED environ

\* The browser opens the page: first run, all widgets at their defaults
Load ==
    /\ ~started
    /\ Rerun("none", api_host, api_path, message, NetBase, NoGet)

EditHost ==
    /\ started
    /\ \E h \in Hosts \ {api_host} :
          Rerun("none", h, api_path, message, NetBase, NoGet)

EditPath ==
    /\ started
    /\ \E p \in Paths \ {api_path} :
          Rerun("none", api_host, p, message, NetBase, NoGet)

EditMessage ==
    /\ started
    /\ \E m \in Messages \ {message} :
          Rerun("none", api_host, api_path, m, NetBase, NoGet)

\* The "Test Connection" button
ClickTest ==
    /\ started
    /\ \E g \in GetOutcomes(api_host) :
          Rerun("test", api_host, api_path, message, NetBase, g)

\* The "Generate Alert Configuration" button
ClickGenerate ==
    /\ started
    /\ IsBlank(message) \/ nSubmits < MaxSubmits
    /\ \E n \in PostOutcomes(ResolvedUrl(environ, api_host, api_path)) :
          Rerun("generate", api_host, api_path, message, n, NoGet)

Next ==
    \/ Load
    \/ EditHost
    \/ EditPath
    \/ EditMessage
    \/ ClickTest
    \/ ClickGenerate

Spec == Init /\ [][Next]_vars

TypeOK ==
    /\ environ \in Environs
    /\ api_host \in Hosts
    /\ api_path \in Paths
    /\ message \in Messages
    /\ started \in BOOLEAN
    /\ nSubmits \in 0..MaxSubmits
    /\ nPosts \in 0..MaxSubmits

\* ============================================================== properties
\* Helpers of the formulas, written from the page and the inputs only.
OverrideSet == "ALERT_API_URL" \in DOMAIN environ /\ environ["ALERT_API_URL"] # ""

Whitespace == {" ", "\t", "\n", "\r"}

OnlyWhitespace == \A i \in 1..Len(message) : message[i] \in Whitespace

Submitted == page.button = "generate"

NothingRendered ==
    /\ page.successes = <<>>
    /\ page.subheaders = <<>>
    /\ page.codes = <<>>
    /\ page.writes = <<>>

\* the exchange of the last run ended in a transport-layer failure
TransportFailed ==
    /\ page.called
    /\ \/ page.net.post_exc \in {"ConnectionError", "ConnectTimeout"}
       \/ page.net.post_exc = "none" /\ page.net.status >= 400

\* the exchange of the last run delivered a body that parsed
Parsed ==
    /\ page.called
    /\ page.net.post_exc = "none"
    /\ page.net.status < 400
    /\ page.net.parses

StatusSuccess(body) ==
    /\ body.t = "obj"
    /\ \E i \in 1..Len(body.v) :
          /\ body.v[i][1] = "status"
          /\ body.v[i][2] = JStr("success")
          /\ \A j \in 1..(i - 1) : body.v[j][1] # "status"

Field(obj, k) == obj.v[CHOOSE i \in 1..Len(obj.v) : obj.v[i][1] = k][2]

HasField(obj, k) == obj.t = "obj" /\ \E i \in 1..Len(obj.v) : obj.v[i][1] = k

KnownTypes == {"ObjectCountAlert", "TimerAlert", "ZoneAlert"}

\* C1: the URL a request goes to is the override, verbatim, when
\* ALERT_API_URL is set and non-empty, whatever the host and path fields
\* hold; otherwise it is host + path of the current fields, which is
\* http://34.67.4.17:8080/api/v1/chat while the fields hold their defaults.
Thm_C1 ==
    page.called =>
        /\ Len(page.posts) >= 1
        /\ OverrideSet => page.posts[1].url = environ["ALERT_API_URL"]
        /\ ~OverrideSet => page.posts[1].url = api_host \o api_path
        /\ (~OverrideSet /\ api_host = "http://34.67.4.17:8080"
               /\ api_path = "/api/v1/chat")
              => page.posts[1].url = "http://34.67.4.17:8080/api/v1/chat"

Wit_C1 ==
    /\ page.called
    /\ OverrideSet
    /\ api_host \o api_path # environ["ALERT_API_URL"]
    /\ api_host \o api_path # "http://34.67.4.17:8080/api/v1/chat"
    /\ page.posts[1].url = "http://override.example/chat"

\* C2: a submission whose message is empty or only whitespace issues no
\* HTTP request (send_alert_request is not called) and shows the warning,
\* whatever happened in the session before.
Thm_C2 ==
    (Submitted /\ OnlyWhitespace) =>
        /\ ~page.called
        /\ page.posts = <<>>
        /\ page.warnings = <<"Please enter a message">>
        /\ page.errors = <<>>

Wit_C2 ==
    /\ Submitted
    /\ Len(message) > 0
    /\ OnlyWhitespace
    /\ nPosts > 0
    /\ page.warnings = <<"Please enter a message">>

\* C3: no failure while handling a submission escapes: every one is caught
\* and shown as a message, including a status "success" response that lacks
\* alert_config, type or params.
Claim_C3 ==
    Submitted =>
        /\ page.uncaught = "none"
        /\ (page.called /\ ~Parsed) => Len(page.errors) = 1

\* C4: a status "success" response whose alert_config.type is not one of the
\* three known types still gets its configuration pretty-printed, gets no
\* explanation line, and raises no exception.
Claim_C4 ==
    (/\ Parsed
     /\ StatusSuccess(page.ret)
     /\ HasField(page.ret, "alert_config")
     /\ HasField(Field(page.ret, "alert_config"), "type")
     /\ LET ty == Field(Field(page.ret, "alert_config"), "type")
        IN  ~(ty.t = "str" /\ ty.v \in KnownTypes))
    =>
        /\ Len(page.codes) = 1
        /\ page.writes = <<>>
        /\ page.uncaught = "none"

\* C5: when the POST fails at the transport layer (connection refused,
\* timeout, DNS failure, 4xx/5xx status) the dispatcher shows the transport
\* error with the underlying message and returns no configuration, and the
\* caller renders no success panel, configuration or explanation.
Thm_C5 ==
    TransportFailed =>
        /\ page.errors = <<"Error communicating with API: " \o page.net.msg>>
        /\ page.ret = PyNone
        /\ NothingRendered
        /\ page.uncaught = "none"

Wit_C5 ==
    /\ TransportFailed
    /\ page.net.status = 500
    /\ page.errors = <<"Error communicating with API: 500 Error for url: "
                         \o "http://34.67.4.17:8080/api/v1/chat">>

\* the parsed response is a status "success" one whose alert_config has type
\* ty (a string) and a params object
SuccessOfType(ty) ==
    /\ Parsed
    /\ StatusSuccess(page.ret)
    /\ HasField(page.ret, "alert_config")
    /\ HasField(Field(page.ret, "alert_config"), "type")
    /\ Field(Field(page.ret, "alert_config"), "type") = JStr(ty)
    /\ HasField(Field(page.ret, "alert_config"), "params")
    /\ Field(Field(page.ret, "alert_config"), "params").t = "obj"

ParamsOfPage == Field(Field(page.ret, "alert_config"), "params")

PersonOver10 ==
    JObj(<< <<"class_name", JStr("person")>>, <<"comparison", JStr(">")>>,
            <<"count_value", JNum(10)>> >>)

\* C6: for each known type and every params object that carries the
\* variant's fields, exactly one explanation line is written and it is the
\* template of that type with the fields substituted.
Thm_C6 ==
    /\ (/\ SuccessOfType("ObjectCountAlert")
        /\ HasField(ParamsOfPage, "class_name")
        /\ HasField(ParamsOfPage, "comparison")
        /\ HasField(ParamsOfPage, "count_value"))
       => /\ page.writes =
                <<"This alert will trigger when the count of '"
                  \o PyStr(Field(ParamsOfPage, "class_name")) \o "' is "
                  \o PyStr(Field(ParamsOfPage, "comparison")) \o " "
                  \o PyStr(Field(ParamsOfPage, "count_value"))>>
          /\ ParamsOfPage = PersonOver10 =>
                page.writes =
                  <<"This alert will trigger when the count of 'person' is > 10">>
          /\ page.uncaught = "none"
    /\ (SuccessOfType("TimerAlert") /\ HasField(ParamsOfPage, "duration"))
       => /\ page.writes =
                <<"This alert will trigger after "
                  \o PyStr(Field(ParamsOfPage, "duration")) \o " seconds">>
          /\ ParamsOfPage = JObj(<< <<"duration", JNum(300)>> >>) =>
                page.writes = <<"This alert will trigger after 300 seconds">>
          /\ page.uncaught = "none"
    /\ (SuccessOfType("ZoneAlert") /\ HasField(ParamsOfPage, "target_object"))
       => /\ page.writes =
                <<"This alert will trigger when a "
                  \o PyStr(Field(ParamsOfPage, "target_object"))
                  \o " is detected in the specified zone">>
          /\ Field(ParamsOfPage, "target_object") = JStr("person") =>
                page.writes =
                  <<"This alert will trigger when a person is detected in "
                    \o "the specified zone">>
          /\ page.uncaught = "none"

Wit_C6 ==
    /\ SuccessOfType("ObjectCountAlert")
    /\ ParamsOfPage = PersonOver10
    /\ page.writes = <<"This alert will trigger when the count of 'person' is > 10">>

Thm_C9 ==
    /\ (Submitted /\ ~OnlyWhitespace) =>
          /\ Len(page.posts) = 1
          /\ page.posts[1].url =
                (IF OverrideSet THEN environ["ALERT_API_URL"] ELSE api_host \o api_path)
          /\ page.posts[1].json.message = message
    /\ ~(Submitted /\ ~OnlyWhitespace) => page.posts = <<>>
    /\ nPosts = nSubmits

Wit_C9 ==
    /\ Submitted
    /\ ~OnlyWhitespace
    /\ page.net.post_exc = "ConnectionError"
    /\ Len(page.posts) = 1
    /\ nSubmits = 2
    /\ nPosts = 2

\* C10: whenever main has run, and so at every POST, the stored endpoint is
\* host + path of the current fields, and get_api_url did not take its
\* default-initialisation branch.
Thm_C10 ==
    started =>
        /\ "api_url" \in DOMAIN session_state
        /\ session_state["api_url"] = api_host \o api_path
        /\ page.ss = session_state
        /\ ~page.defaulted

Wit_C10 ==
    /\ page.called
    /\ Len(page.posts) = 1
    /\ nSubmits = 2
    /\ api_host = ""
    /\ session_state["api_url"] = "/v2/chat"

====
